---- MODULE Spec2Model ----
(***************************************************************************)
(* FanboxDLArchive: the archive synchronization pipeline.                  *)
(*                                                                         *)
(*   main            -> sync_creators -> per creator: get_posts, sync_posts *)
(*   get_posts       -> read_fanbox_dl_archive -> read_dir_files           *)
(*   sync_posts      -> per post: transaction, post.sync, spawn one task    *)
(*                      per file, commit; then join_all and the summary     *)
(*                                                                         *)
(* A name is a sequence of characters, a character a one-element string    *)
(* (or the token U3, one character of three UTF-8 bytes), a path a         *)
(* sequence of names.                                                      *)
(***************************************************************************)
EXTENDS Integers, Sequences, FiniteSets, TLC

(***************************************************************************)
(* Bounds of the model.                                                    *)
(***************************************************************************)
MaxLimit == 2        \* config.limit is drawn from 0..MaxLimit
MaxEntries == 2      \* entries of a creator directory in SpecRead
ChainDepth == 6      \* nesting of the deepest group directory
MaxCreators == 3     \* entries of the input directory in SpecCreators
MaxListed == 2       \* identifiers on the whitelist and on the blacklist

(***************************************************************************)
(* Strings.                                                                *)
(***************************************************************************)
U3 == "U+5186"       \* one character that takes three bytes in UTF-8

Digits == <<"0", "1", "2", "3", "4", "5", "6", "7", "8", "9">>

IsDigit(c) == \E i \in 1..10 : Digits[i] = c

DigitVal(c) == (CHOOSE i \in 1..10 : Digits[i] = c) - 1

Width(c) == IF c = U3 THEN 3 ELSE 1

RECURSIVE ByteLen(_)
ByteLen(s) == IF s = <<>> THEN 0 ELSE Width(Head(s)) + ByteLen(Tail(s))

Last(s) == s[Len(s)]

\* str::starts_with('.')
StartsWithDot(s) == Len(s) > 0 /\ s[1] = "."

YEN == <<"y", "e", "n">>

EndsWith(s, suf) ==
    /\ Len(s) >= Len(suf)
    /\ SubSeq(s, Len(s) - Len(suf) + 1, Len(s)) = suf

\* str::trim_end_matches(pat): the suffix is removed as often as it matches
RECURSIVE trim_end_matches(_, _)
trim_end_matches(s, pat) ==
    IF EndsWith(s, pat)
    THEN trim_end_matches(SubSeq(s, 1, Len(s) - Len(pat)), pat)
    ELSE s

\* A u32 is held as its decimal numeral without leading zeros (the value
\* 2^32 - 1 is beyond the integers the checker computes with).
U32_MAX == <<"4", "2", "9", "4", "9", "6", "7", "2", "9", "5">>

RECURSIVE DecimalValue(_, _)
\* the value of a short string of digits
DecimalValue(s, acc) ==
    IF s = <<>> THEN acc
    ELSE DecimalValue(Tail(s), acc * 10 + DigitVal(Head(s)))

RECURSIVE StripZeros(_)
StripZeros(s) ==
    IF Len(s) > 1 /\ Head(s) = "0" THEN StripZeros(Tail(s)) ELSE s

RECURSIVE NumeralLeq(_, _)
\* a <= b for two numerals of the same length
NumeralLeq(a, b) ==
    IF a = <<>> THEN TRUE
    ELSE IF DigitVal(Head(a)) # DigitVal(Head(b))
         THEN DigitVal(Head(a)) < DigitVal(Head(b))
         ELSE NumeralLeq(Tail(a), Tail(b))

FitsU32(numeral) ==
    \/ Len(numeral) < Len(U32_MAX)
    \/ Len(numeral) = Len(U32_MAX) /\ NumeralLeq(numeral, U32_MAX)

\* str::parse::<u32>(): an optional '+', then one digit or more, no overflow
parse_u32(s) ==
    LET body == IF Len(s) > 0 /\ s[1] = "+" THEN Tail(s) ELSE s
    IN  IF body = <<>> \/ \E i \in 1..Len(body) : ~IsDigit(body[i])
        THEN [ok |-> FALSE, val |-> <<>>]
        ELSE IF ~FitsU32(StripZeros(body))
             THEN [ok |-> FALSE, val |-> <<>>]
             ELSE [ok |-> TRUE, val |-> StripZeros(body)]

\* Display of a u32: decimal, no sign, no leading zero
format_u32(n) == n

DATE_PREFIX_LEN == 11

\* str::split_at(mid): mid is a byte offset; it panics when mid is past the
\* end or inside a character
split_at(s, mid) ==
    IF \E k \in 0..Len(s) : ByteLen(SubSeq(s, 1, k)) = mid
    THEN LET k == CHOOSE k \in 0..Len(s) : ByteLen(SubSeq(s, 1, k)) = mid
         IN  [panic |-> FALSE, left |-> SubSeq(s, 1, k),
              right |-> SubSeq(s, k + 1, Len(s))]
    ELSE [panic |-> TRUE, left |-> <<>>, right |-> <<>>]

\* the text matches "%Y-%m-%d-": dddd-dd-dd- with a month 01..12 and a day
\* 01..31
MatchesDateFormat(s) ==
    /\ Len(s) = 11
    /\ \A i \in {1, 2, 3, 4, 6, 7, 9, 10} : IsDigit(s[i])
    /\ \A i \in {5, 8, 11} : s[i] = "-"
    /\ DecimalValue(SubSeq(s, 6, 7), 0) \in 1..12
    /\ DecimalValue(SubSeq(s, 9, 10), 0) \in 1..31

\* the fields "%Y-%m-%d-" fills in: a date; no time of day, no UTC offset
DateFormatFields == {"year", "month", "day"}

\* DateTime::<FixedOffset>::parse_from_str(s, "%Y-%m-%d-"): the parsed
\* fields must determine a date, a time of day and an offset
parse_from_str(s) ==
    IF ~MatchesDateFormat(s) THEN [ok |-> FALSE, date |-> <<>>]
    ELSE IF ~({"hour", "minute", "offset"} \subseteq DateFormatFields)
         THEN [ok |-> FALSE, date |-> <<>>]
         ELSE [ok |-> TRUE, date |-> SubSeq(s, 1, 10)]

\* Path::to_string_lossy: the components joined by '/'
RECURSIVE to_string_lossy(_)
to_string_lossy(path) ==
    IF Len(path) = 1 THEN path[1]
    ELSE to_string_lossy(SubSeq(path, 1, Len(path) - 1)) \o <<"/">> \o Last(path)

(***************************************************************************)
(* The input tree.  A directory entry is a record: its name, what          *)
(* file_type() answers (file, dir, other; err when file_type() fails),     *)
(* how reading it as a directory goes (fail: none; read_dir when           *)
(* fs::read_dir fails; next_entry when next_entry fails after `cut`        *)
(* entries) and, for a directory, its entries in the order the listing     *)
(* delivers them.                                                          *)
(***************************************************************************)
File(name) ==
    [name |-> name, kind |-> "file", fail |-> "none", cut |-> 0, entries |-> <<>>]

Dir(name, entries) ==
    [name |-> name, kind |-> "dir", fail |-> "none", cut |-> 0, entries |-> entries]

Unreadable(name) ==
    [name |-> name, kind |-> "dir", fail |-> "read_dir", cut |-> 0, entries |-> <<>>]

CutDir(name, entries, cut) ==
    [name |-> name, kind |-> "dir", fail |-> "next_entry", cut |-> cut,
     entries |-> entries]

Special(name, kind) ==
    [name |-> name, kind |-> kind, fail |-> "none", cut |-> 0, entries |-> <<>>]

\* while let Ok(Some(entry)) = entrys.next_entry().await: the entries the
\* loop sees; an error of next_entry ends the loop like the end of the listing
Listing(d) ==
    IF d.fail = "next_entry" THEN SubSeq(d.entries, 1, d.cut) ELSE d.entries

\* UnsyncFileMeta::from_path(path): the file's meta (its filename; the mime
\* type and the image size play no part here) and its source path
from_path(path) == [filename |-> Last(path), path |-> path]

MAX_DEPTH == 5

Ok(list) == [ok |-> TRUE, list |-> list]

Err == [ok |-> FALSE, list |-> <<>>]

extend_drops_files(list, files) == list

\* list.extend(files)
extend(list, files) == list \o files

\* filename.starts_with('.') in both listing loops
is_hidden(filename) == StartsWithDot(filename)

over_depth_one_early(level) == level >= MAX_DEPTH

\* if level > MAX_DEPTH, at the head of read_dir_files
over_depth(level) == level > MAX_DEPTH

RECURSIVE read_dir_files(_, _, _)
RECURSIVE read_dir_entries(_, _, _, _, _)
RECURSIVE read_dir_await(_, _, _, _, _)

\* the while loop of read_dir_files over es[i..]: the files go to list, the
\* subdirectories (as indices into es) to dirs
read_dir_entries(path, es, i, list, dirs) ==
    IF i > Len(es) THEN [ok |-> TRUE, list |-> list, dirs |-> dirs]
    ELSE LET e == es[i] IN
         IF is_hidden(e.name)
         THEN read_dir_entries(path, es, i + 1, list, dirs)
         ELSE IF e.kind = "err"
         THEN [ok |-> FALSE, list |-> <<>>, dirs |-> <<>>]
         ELSE IF e.kind = "dir"
         THEN read_dir_entries(path, es, i + 1, list, Append(dirs, i))
         ELSE IF e.kind = "file"
         THEN read_dir_entries(path, es, i + 1,
                               Append(list, from_path(Append(path, e.name))), dirs)
         ELSE read_dir_entries(path, es, i + 1, list, dirs)

\* for dir in dirs { let files = dir.await?; list.extend(files); }
read_dir_await(path, es, dirs, list, level) ==
    IF dirs = <<>> THEN Ok(list)
    ELSE LET e == es[Head(dirs)]
             files == read_dir_files(Append(path, e.name), e, level + 1)
         IN  IF ~files.ok THEN Err
             ELSE read_dir_await(path, es, Tail(dirs), extend(list, files.list), level)

read_dir_files(path, d, level) ==
    IF over_depth(level) THEN Ok(<<>>)
    ELSE IF d.fail = "read_dir" THEN Err
    ELSE LET es == Listing(d)
             scan == read_dir_entries(path, es, 1, <<>>, <<>>)
         IN  IF ~scan.ok THEN Err
             ELSE read_dir_await(path, es, scan.dirs, scan.list, level)

(***************************************************************************)
(* FanboxDLPost and read_fanbox_dl_archive.                                *)
(***************************************************************************)
Ungroup(files) ==
    [type |-> "Ungroup", plan |-> <<>>, date |-> <<>>, name |-> <<>>, files |-> files]

GroupByPlan(plan, files) ==
    [type |-> "GroupByPlan", plan |-> plan, date |-> <<>>, name |-> <<>>,
     files |-> files]

GroupByPost(date, name, files) ==
    [type |-> "GroupByPost", plan |-> <<>>, date |-> date, name |-> name,
     files |-> files]

Returned(posts) == [status |-> "ok", posts |-> posts]

Failed == [status |-> "err", posts |-> <<>>]

Panicked == [status |-> "panic", posts |-> <<>>]

\* let is_plan = yen != filename, with yen = filename.trim_end_matches("yen")
is_plan(filename) == trim_end_matches(filename, YEN) # filename

RECURSIVE read_entries(_, _, _, _, _)
\* the while loop of read_fanbox_dl_archive over es[i..]
read_entries(path, es, i, posts, ungroup) ==
    IF i > Len(es) THEN Returned(Append(posts, Ungroup(ungroup)))
    ELSE LET e == es[i]
             filename == e.name
         IN
         IF is_hidden(filename)
         THEN read_entries(path, es, i + 1, posts, ungroup)
         ELSE IF e.kind = "err" THEN Failed
         ELSE IF e.kind = "dir"
         THEN IF is_plan(filename)
              THEN LET yen == parse_u32(trim_end_matches(filename, YEN))
                       files == read_dir_files(Append(path, filename), e, 1)
                   IN  IF ~yen.ok THEN Failed
                       ELSE IF ~files.ok THEN Failed
                       ELSE read_entries(path, es, i + 1,
                                Append(posts, GroupByPlan(yen.val, files.list)),
                                ungroup)
              ELSE LET sp == split_at(filename, DATE_PREFIX_LEN)
                       date == parse_from_str(sp.left)
                       files == read_dir_files(Append(path, filename), e, 1)
                   IN  IF sp.panic THEN Panicked
                       ELSE IF date.ok
                       THEN IF ~files.ok THEN Failed
                            ELSE read_entries(path, es, i + 1,
                                     Append(posts,
                                            GroupByPost(date.date, sp.right, files.list)),
                                     ungroup)
                       ELSE read_entries(path, es, i + 1, posts, ungroup)
         ELSE IF e.kind = "file"
         THEN read_entries(path, es, i + 1, posts,
                           Append(ungroup, from_path(Append(path, filename))))
         ELSE read_entries(path, es, i + 1, posts, ungroup)

\* path: the creator's directory; d: its entry in the input root
read_fanbox_dl_archive(path, d) ==
    IF d.fail = "read_dir" THEN Failed
    ELSE read_entries(path, Listing(d), 1, <<>>, <<>>)

(***************************************************************************)
(* get_posts.                                                              *)
(***************************************************************************)
\* to_file_metas: the post's content, one UnsyncContent::File per file
to_file_metas(files) == [i \in 1..Len(files) |-> files[i].filename]

\* HashMap::from_iter over (filename, path): a later pair replaces an
\* earlier one with the same key
RECURSIVE collect_map(_, _)
collect_map(files, map) ==
    IF files = <<>> THEN map
    ELSE LET f == Head(files)
         IN  collect_map(Tail(files),
                 [k \in DOMAIN map \cup {f.filename} |->
                     IF k = f.filename THEN f.path ELSE map[k]])

to_file_map(files) == collect_map(files, <<>>)

SEP == <<" ", "-", " ">>

\* the source (origin key) UnsyncPost::new is given for a group
post_source(path, group) ==
    IF group.type = "Ungroup" THEN to_string_lossy(path)
    ELSE IF group.type = "GroupByPlan"
    THEN to_string_lossy(path) \o SEP \o format_u32(group.plan) \o YEN
    ELSE to_string_lossy(path) \o SEP \o group.name

\* the title UnsyncPost::new is given for a group
post_title(group) ==
    IF group.type = "Ungroup" THEN <<"Fanbox archive">>
    ELSE IF group.type = "GroupByPlan" THEN <<"{}yen fanbox archive">>
    ELSE group.name

\* the (UnsyncPost, file map) pair a group is mapped to; published and
\* updated are set for a GroupByPost alone
to_post(path, group) ==
    [source |-> post_source(path, group),
     title |-> post_title(group),
     published |-> group.date,
     updated |-> group.date,
     content |-> to_file_metas(group.files),
     files |-> to_file_map(group.files)]

\* .filter(|(post, _)| !post.content.is_empty())
keep_every_post(post) == TRUE

keep_post(post) == post.content # <<>>

get_posts(path, d) ==
    LET groups == read_fanbox_dl_archive(path, d)
    IN  IF groups.status # "ok" THEN groups
        ELSE Returned(SelectSeq([i \in 1..Len(groups.posts) |->
                                    to_post(path, groups.posts[i])], keep_post))

(***************************************************************************)
(* Names and directory contents the inputs are drawn from.                 *)
(***************************************************************************)
n_123yen == <<"1", "2", "3", "y", "e", "n">>
n_100yen == <<"1", "0", "0", "y", "e", "n">>
n_0100yen == <<"0", "1", "0", "0", "y", "e", "n">>
n_bigyen == <<"4", "2", "9", "4", "9", "6", "7", "2", "9", "6", "y", "e", "n">>
n_abcyen == <<"a", "b", "c", "y", "e", "n">>
n_yen == <<"y", "e", "n">>
n_date == <<"2", "0", "2", "4", "-", "0", "5", "-", "0", "1", "-">>
n_dated500yen == n_date \o <<"5", "0", "0", "y", "e", "n">>
n_birthday == n_date \o <<"B", "i", "r", "t", "h", "d", "a", "y">>
n_misc == <<"m", "i", "s", "c">>
n_miscellaneous ==
    <<"m", "i", "s", "c", "e", "l", "l", "a", "n", "e", "o", "u", "s">>
n_kanji == <<U3, U3, U3, U3>>
n_git == <<".", "g", "i", "t">>
n_x == <<"x">>
n_y == <<"y">>
n_a == <<"a">>
n_b == <<"b">>
n_hidden == <<".", "h">>

DirNames ==
    {n_123yen, n_100yen, n_0100yen, n_bigyen, n_abcyen, n_yen,
     n_dated500yen, n_birthday, n_misc, n_miscellaneous, n_kanji, n_git}

\* a chain of n nested directories, a file in each
RECURSIVE Chain(_)
Chain(n) == IF n = 0 THEN <<>> ELSE <<File(n_x), Dir(n_a, Chain(n - 1))>>

S_one == <<File(n_x)>>
S_two == <<File(n_x), File(n_y)>>
S_dup == <<Dir(n_a, <<File(n_x)>>), Dir(n_b, <<File(n_x)>>)>>
S_hidden == <<File(n_hidden), Dir(n_git, <<File(n_x)>>), File(n_y)>>
S_unreadable == <<File(n_x), Unreadable(n_a)>>
S_cut == <<File(n_x), CutDir(n_a, <<File(n_x), File(n_y)>>, 1)>>
S_odd == <<Special(n_a, "other"), File(n_x)>>
S_err == <<File(n_x), Special(n_a, "err")>>

Subtrees ==
    {<<>>, S_one, S_two, S_dup, S_hidden, S_unreadable, S_cut, S_odd, S_err,
     Chain(ChainDepth)}

\* the entries a creator directory is made of in SpecRead
EntryMenu ==
    {Dir(n, S_one) : n \in DirNames}
        \cup {Dir(n_123yen, s) : s \in Subtrees}
        \cup {Dir(n_birthday, s) : s \in Subtrees}
        \cup {File(n_x), File(n_y), File(n_hidden), Special(n_a, "other"),
              Special(n_b, "err"), Unreadable(n_100yen),
              CutDir(n_100yen, S_two, 1)}

DistinctNames(es) ==
    \A i, j \in 1..Len(es) : i # j => es[i].name # es[j].name

Listings(menu, n) ==
    {es \in UNION {[1..k -> menu] : k \in 0..n} : DistinctNames(es)}

n_alice == <<"a", "l", "i", "c", "e">>
n_bob == <<"b", "o", "b">>

ReadInputs ==
    {Dir(n_alice, es) : es \in Listings(EntryMenu, MaxEntries)}
        \cup {Unreadable(n_alice), CutDir(n_alice, <<File(n_x), File(n_y)>>, 1)}

(***************************************************************************)
(* The creator directories the pipeline is run over.                       *)
(***************************************************************************)
T_loose == <<File(n_x)>>
T_plan == <<Dir(n_123yen, S_two), File(n_x), File(n_y)>>
T_dup == <<Dir(n_100yen, S_dup)>>
T_same == <<Dir(n_100yen, S_one), Dir(n_0100yen, S_one)>>
T_abc == <<Dir(n_abcyen, S_one)>>
T_misc == <<File(n_x), Dir(n_misc, S_one)>>
T_ignored == <<Dir(n_miscellaneous, S_one)>>

TreeMenu == {<<>>, T_loose, T_plan, T_dup, T_same, T_abc, T_misc, T_ignored}

\* the creators get_creators returns, in the order of the listing
CreatorNames == <<n_alice, n_bob>>

InputRoots ==
    {[i \in 1..Len(CreatorNames) |-> Dir(CreatorNames[i], t[i])] :
         t \in [1..Len(CreatorNames) -> TreeMenu]}

(***************************************************************************)
(* get_creators and the creator filter.  A configuration is the listing of *)
(* the input directory with the whitelist and the blacklist of the command *)
(* line, both in the order given.                                          *)
(***************************************************************************)
n_carol == <<"c", "a", "r", "o", "l">>

\* Vec::contains
contains(list, x) == \E i \in 1..Len(list) : list[i] = x

filter_creator_allow_wins(config, creator) ==
    \/ contains(config.whitelist, creator)
    \/ config.whitelist = <<>> /\ ~contains(config.blacklist, creator)

\* Config::filter_creator
filter_creator(config, creator) ==
    LET accept1 == config.whitelist = <<>> \/ contains(config.whitelist, creator)
        accept2 == accept1 /\ ~contains(config.blacklist, creator)
    IN  accept2

\* an item of fs::read_dir that is an Err: flat_map(|e| e) drops it
BadEntry ==
    [name |-> <<>>, kind |-> "err", fail |-> "entry", cut |-> 0, entries |-> <<>>]

RECURSIVE list_creators(_, _, _)

\* the for loop of get_creators over es[i..]
list_creators(es, i, creators) ==
    IF i > Len(es) THEN Ok(creators)
    ELSE LET e == es[i] IN
         IF e.fail = "entry" THEN list_creators(es, i + 1, creators)
         ELSE IF is_hidden(e.name) THEN list_creators(es, i + 1, creators)
         ELSE IF e.kind = "err" THEN Err
         ELSE IF e.kind # "dir" THEN list_creators(es, i + 1, creators)
         ELSE list_creators(es, i + 1,
                            Append(creators, [name |-> e.name, path |-> <<e.name>>]))

RECURSIVE retain(_, _)

\* creators.retain(|(c, _)| config.filter_creator(c))
retain(config, creators) ==
    IF creators = <<>> THEN <<>>
    ELSE LET rest == retain(config, Tail(creators)) IN
         IF filter_creator(config, Head(creators).name)
         THEN <<Head(creators)>> \o rest
         ELSE rest

CreatorsErr ==
    [ok |-> FALSE, creators |-> <<>>, total |-> 0, included |-> 0, excluded |-> 0]

\* get_creators: the creators returned and the three counts it logs
get_creators(config) ==
    IF config.input.fail = "read_dir" THEN CreatorsErr
    ELSE LET r == list_creators(config.input.entries, 1, <<>>) IN
         IF ~r.ok THEN CreatorsErr
         ELSE LET total == Len(r.list)
                  kept == retain(config, r.list)
                  filtered == Len(kept)
              IN  [ok |-> TRUE, creators |-> kept, total |-> total,
                   included |-> filtered, excluded |-> total - filtered]

n_input == <<"i", "n">>

CreatorIds == {n_alice, n_bob, n_carol}

RootMenu ==
    {Dir(n, <<>>) : n \in CreatorIds} \cup {File(n_x), Dir(n_git, <<>>)}

IdLists == UNION {[1..k -> CreatorIds] : k \in 0..MaxListed}

CreatorRoots ==
    {Dir(n_input, es) : es \in Listings(RootMenu, MaxCreators)}
        \cup {Unreadable(n_input),
              Dir(n_input, <<Dir(n_alice, <<>>), Special(n_bob, "err")>>),
              Dir(n_input, <<BadEntry, Dir(n_alice, <<>>), Special(n_bob, "other")>>)}

Configs == [input : CreatorRoots, whitelist : IdLists, blacklist : IdLists]

(***************************************************************************)
(* State.                                                                  *)
(***************************************************************************)
VARIABLES
    rdInput,     \* SpecRead: the creator directory handed to get_posts
    rdPhase,     \* SpecRead: "input", "read" (groups built), "posts"
    rdGroups,    \* SpecRead: what read_fanbox_dl_archive returned
    rdPosts,     \* SpecRead: what get_posts returned
    crConfig,    \* SpecCreators: the input directory and the two lists
    crPhase,     \* SpecCreators: "input", "listed"
    crResult,    \* SpecCreators: what get_creators returned and logged
    fs,          \* the creator directories under config.input
    limit,       \* config.limit
    pc,          \* where main is
    authors,     \* main: what sync_creators returned
    ci,          \* main: the creator the for loop is at
    store,       \* the archive store, committed: authors and posts
    txn,         \* sync_posts: the post written in the open transaction
    posts,       \* sync_posts: its argument
    pi,          \* sync_posts: the post the for loop is at
    tasks,       \* every task spawned into a join_set in this run
    permits,     \* sync_posts: the permits of `semaphores`
    total,       \* sync_posts: the progress bar `total`
    summary,     \* the summaries logged, one for each sync_posts that returned Ok
    run,         \* the run of the program against the store: 1, 2
    firstRun     \* how the first run ended and the store it left

rdVars == <<rdInput, rdPhase, rdGroups, rdPosts>>

mainVars ==
    <<fs, limit, pc, authors, ci, store, txn, posts, pi, tasks, permits, total,
      summary, run, firstRun>>

crVars == <<crConfig, crPhase, crResult>>

vars == <<rdVars, crVars, mainVars>>

\* get_creators is not under way
CrIdle ==
    /\ crConfig = [input |-> Dir(n_input, <<>>), whitelist |-> <<>>,
                   blacklist |-> <<>>]
    /\ crPhase = "listed"
    /\ crResult = get_creators(crConfig)

Idle ==
    /\ fs = <<>>
    /\ limit = 0
    /\ pc = "idle"
    /\ authors = <<>>
    /\ ci = 0
    /\ store = [authors |-> {}, posts |-> {}]
    /\ txn = {}
    /\ posts = <<>>
    /\ pi = 0
    /\ tasks = <<>>
    /\ permits = 0
    /\ total = [length |-> 0, position |-> 0]
    /\ summary = <<>>
    /\ run = 1
    /\ firstRun = [exit |-> "none", store |-> [authors |-> {}, posts |-> {}]]

(***************************************************************************)
(* SpecRead: grouping alone, over every input of ReadInputs.               *)
(***************************************************************************)
InitRead ==
    /\ rdInput \in ReadInputs
    /\ rdPhase = "input"
    /\ rdGroups = Returned(<<>>)
    /\ rdPosts = Returned(<<>>)
    /\ CrIdle
    /\ Idle

ReadArchive ==
    /\ rdPhase = "input"
    /\ rdGroups' = read_fanbox_dl_archive(<<rdInput.name>>, rdInput)
    /\ rdPhase' = "read"
    /\ UNCHANGED <<rdInput, rdPosts, crVars, mainVars>>

ReadPosts ==
    /\ rdPhase = "read"
    /\ rdPosts' = get_posts(<<rdInput.name>>, rdInput)
    /\ rdPhase' = "posts"
    /\ UNCHANGED <<rdInput, rdGroups, crVars, mainVars>>

NextRead == ReadArchive \/ ReadPosts

SpecRead == InitRead /\ [][NextRead]_vars

(***************************************************************************)
(* SpecCreators: get_creators alone, over every configuration of Configs.  *)
(***************************************************************************)
InitCreators ==
    /\ crConfig \in Configs
    /\ crPhase = "input"
    /\ crResult = CreatorsErr
    /\ rdInput = Dir(n_alice, <<>>)
    /\ rdPhase = "posts"
    /\ rdGroups = Returned(<<>>)
    /\ rdPosts = Returned(<<>>)
    /\ Idle

GetCreators ==
    /\ crPhase = "input"
    /\ crResult' = get_creators(crConfig)
    /\ crPhase' = "listed"
    /\ UNCHANGED <<crConfig, rdVars, mainVars>>

NextCreators == GetCreators

SpecCreators == InitCreators /\ [][NextCreators]_vars

(***************************************************************************)
(* The archive store.  An author is [id, alias], a post [id, source]; a    *)
(* transaction's writes reach the store when it commits and are dropped    *)
(* when it is dropped.                                                     *)
(***************************************************************************)
FANBOX == <<"f", "a", "n", "b", "o", "x", ":">>

\* format!("fanbox:{}", creator)
alias_of(creator) == FANBOX \o creator

check_author_always_none(known, alias) == [found |-> FALSE, id |-> 0]

\* manager.check_author(&[alias]): the author that has the alias, if any
check_author(known, alias) ==
    IF \E a \in known : a.alias = alias
    THEN [found |-> TRUE, id |-> (CHOOSE a \in known : a.alias = alias).id]
    ELSE [found |-> FALSE, id |-> 0]

RECURSIVE sync_creators_from(_, _, _, _, _)
\* the for loop of sync_creators from creator i on; known: the authors the
\* transaction sees; failAt: the creator at which the store fails
sync_creators_from(creators, i, known, list, failAt) ==
    IF i > Len(creators) THEN [ok |-> TRUE, authors |-> known, list |-> list]
    ELSE IF failAt = i THEN [ok |-> FALSE, authors |-> known, list |-> <<>>]
    ELSE LET alias == alias_of(creators[i].name)
             hit == check_author(known, alias)
             id == IF hit.found THEN hit.id ELSE Cardinality(known) + 1
             seen == IF hit.found THEN known
                     ELSE known \cup {[id |-> id, alias |-> alias]}
         IN  sync_creators_from(creators, i + 1, seen,
                 Append(list, [author |-> id, path |-> <<creators[i].name>>]),
                 failAt)

rollback_keeps_writes(committed, written) == written

\* the transaction is dropped without a commit: the store keeps the authors
\* it had, the authors written in the transaction are gone
rollback(committed, written) == committed

\* failAt = 0: manager.transaction() fails; 1..n: the lookup or the creation
\* fails at that creator; n + 1: manager.commit() fails; n + 2: nothing fails.
\* authors: the authors of the store after the call
sync_creators(committed, creators, failAt) ==
    IF failAt = 0 THEN [ok |-> FALSE, authors |-> committed, list |-> <<>>]
    ELSE LET r == sync_creators_from(creators, 1, committed, <<>>, failAt) IN
         IF r.ok /\ failAt # Len(creators) + 1 THEN r
         ELSE [ok |-> FALSE, authors |-> rollback(committed, r.authors),
               list |-> <<>>]

\* post.sync(&manager, files): the store looks the post up by its source and
\* creates it when there is none; one (target, source) pair for each entry
\* of the file map
post_sync(known, post) ==
    LET id == IF \E q \in known : q.source = post.source
              THEN (CHOOSE q \in known : q.source = post.source).id
              ELSE Cardinality(known) + 1
    IN  [post |-> [id |-> id, source |-> post.source],
         files |-> {[target |-> <<id, k>>, source |-> post.files[k]] :
                        k \in DOMAIN post.files}]

RECURSIVE SeqOf(_)
\* the elements of a set, one after the other
SeqOf(set) ==
    IF set = {} THEN <<>>
    ELSE LET x == CHOOSE x \in set : TRUE IN <<x>> \o SeqOf(set \ {x})

(***************************************************************************)
(* Tasks.  state: Pending (spawned, waiting for a permit), Running (holds  *)
(* a permit, its copy / rename / hard_link is under way), Succeeded,       *)
(* Failed, Aborted (the join_set was dropped before the task was done);    *)
(* started: the task has got its permit, so that its copy / rename /       *)
(* hard_link was begun.                                                    *)
(***************************************************************************)
Terminal == {"Succeeded", "Failed", "Aborted"}

\* join_set.spawn(...) for each (target, source) of the post
spawn(ts, files, creator, post) ==
    ts \o [i \in 1..Len(files) |->
              [run |-> run, creator |-> creator, post |-> post,
               source |-> files[i].source, target |-> files[i].target,
               state |-> "Pending", started |-> FALSE]]

\* the join_set is dropped with sync_posts' early return: its tasks are
\* aborted
drop_join_set(ts) ==
    [i \in 1..Len(ts) |->
        IF ts[i].state \in Terminal THEN ts[i]
        ELSE [ts[i] EXCEPT !.state = "Aborted"]]

acquire_without_permit(n) == TRUE

\* semaphores.acquire() goes through when a permit is left
can_acquire(n) == n > 0

\* ProgressBar::new(len)
ProgressBar(len) == [length |-> len, position |-> 0]

\* ProgressBar::finish_and_clear: the position is set to the length
finish_and_clear(pb) == [pb EXCEPT !.position = pb.length]

\* the three numbers sync_posts logs: total, success, failed
report(pb) ==
    [total |-> pb.length, success |-> pb.position,
     failed |-> pb.length - pb.position]

(***************************************************************************)
(* main.                                                                   *)
(***************************************************************************)
Ended == {"done", "err_sync_creators", "err_get_posts", "err_sync_posts", "panic"}

InSyncPosts == pc \in {"sync_posts", "commit", "join"}

Init ==
    /\ rdInput = Dir(n_alice, <<>>)
    /\ rdPhase = "posts"
    /\ rdGroups = Returned(<<>>)
    /\ rdPosts = Returned(<<>>)
    /\ CrIdle
    /\ fs \in InputRoots
    /\ limit \in 0..MaxLimit
    /\ pc = "sync_creators"
    /\ authors = <<>>
    /\ ci = 0
    /\ store = [authors |-> {}, posts |-> {}]
    /\ txn = {}
    /\ posts = <<>>
    /\ pi = 0
    /\ tasks = <<>>
    /\ permits = 0
    /\ total = ProgressBar(0)
    /\ summary = <<>>
    /\ run = 1
    /\ firstRun = [exit |-> "none", store |-> [authors |-> {}, posts |-> {}]]

\* let authors = sync_creators(&mut manager, creators, platform)?;
SyncCreators ==
    /\ pc = "sync_creators"
    /\ \E failAt \in 0..(Len(fs) + 2) :
           LET r == sync_creators(store.authors, fs, failAt) IN
           /\ store' = [store EXCEPT !.authors = r.authors]
           /\ IF r.ok
              THEN /\ authors' = r.list
                   /\ ci' = IF r.list = <<>> THEN 0 ELSE 1
                   /\ pc' = IF r.list = <<>> THEN "done" ELSE "get_posts"
              ELSE /\ pc' = "err_sync_creators"
                   /\ UNCHANGED <<authors, ci>>
    /\ UNCHANGED <<rdVars, crVars, fs, limit, txn, posts, pi, tasks, permits, total,
                   summary, run, firstRun>>

\* the end of one round of main's for loop
NextCreator ==
    IF ci = Len(authors)
    THEN pc' = "done" /\ ci' = ci
    ELSE pc' = "get_posts" /\ ci' = ci + 1

\* let posts = get_posts(path, platform).await?; and, when there are posts,
\* the start of sync_posts: the progress bar, the join_set, the semaphore
MainGetPosts ==
    /\ pc = "get_posts"
    /\ LET r == get_posts(authors[ci].path, fs[ci]) IN
       IF r.status = "panic"
       THEN pc' = "panic" /\ UNCHANGED <<ci, posts, pi, permits, total>>
       ELSE IF r.status = "err"
       THEN pc' = "err_get_posts" /\ UNCHANGED <<ci, posts, pi, permits, total>>
       ELSE IF r.posts = <<>>
       THEN NextCreator /\ UNCHANGED <<posts, pi, permits, total>>
       ELSE /\ pc' = "sync_posts"
            /\ posts' = r.posts
            /\ pi' = 1
            /\ permits' = limit
            /\ total' = ProgressBar(Len(r.posts))
            /\ ci' = ci
    /\ UNCHANGED <<rdVars, crVars, fs, limit, authors, store, txn, tasks, summary, run,
                   firstRun>>

\* one round of sync_posts' for loop up to manager.commit(): the
\* transaction, post.sync and one task spawned for each of its files
SyncPost ==
    /\ pc = "sync_posts"
    /\ \E ok \in BOOLEAN :
           IF ok
           THEN LET r == post_sync(store.posts, posts[pi]) IN
                /\ txn' = {r.post}
                /\ tasks' = spawn(tasks, SeqOf(r.files), ci, pi)
                /\ pc' = "commit"
           ELSE /\ txn' = {}
                /\ tasks' = drop_join_set(tasks)
                /\ pc' = "err_sync_posts"
    /\ UNCHANGED <<rdVars, crVars, fs, limit, authors, ci, store, posts, pi, permits,
                   total, summary, run, firstRun>>

\* manager.commit()?; at the end of the round
CommitPost ==
    /\ pc = "commit"
    /\ \E ok \in BOOLEAN :
           IF ok
           THEN /\ store' = [store EXCEPT !.posts = @ \cup txn]
                /\ pi' = pi + 1
                /\ pc' = IF pi = Len(posts) THEN "join" ELSE "sync_posts"
                /\ tasks' = tasks
           ELSE /\ tasks' = drop_join_set(tasks)
                /\ pc' = "err_sync_posts"
                /\ UNCHANGED <<store, pi>>
    /\ txn' = {}
    /\ UNCHANGED <<rdVars, crVars, fs, limit, authors, ci, posts, permits, total,
                   summary, run, firstRun>>

\* let _semaphore = semaphores.acquire().await.unwrap();
TaskAcquire(t) ==
    /\ InSyncPosts
    /\ tasks[t].state = "Pending"
    /\ can_acquire(permits)
    /\ permits' = permits - 1
    /\ tasks' = [tasks EXCEPT ![t].state = "Running", ![t].started = TRUE]
    /\ UNCHANGED <<rdVars, crVars, fs, limit, pc, authors, ci, store, txn, posts, pi,
                   total, summary, run, firstRun>>

transform_failed_aborts_rest(ts, t) ==
    [i \in 1..Len(ts) |->
        IF i = t THEN [ts[i] EXCEPT !.state = "Failed"]
        ELSE IF ts[i].state \in Terminal THEN ts[i]
        ELSE [ts[i] EXCEPT !.state = "Aborted"]]

\* the task's copy / rename / hard_link has failed: the error becomes the
\* message of the file's progress bar
transform_failed(ts, t) == [ts EXCEPT ![t].state = "Failed"]

\* copy / rename / hard_link returns, the outcome is shown on the file's
\* progress bar, and the permit is dropped with the task
TaskFinish(t) ==
    /\ InSyncPosts
    /\ tasks[t].state = "Running"
    /\ \E error \in BOOLEAN :
           tasks' = IF error THEN transform_failed(tasks, t)
                    ELSE [tasks EXCEPT ![t].state = "Succeeded"]
    /\ permits' = permits + 1
    /\ UNCHANGED <<rdVars, crVars, fs, limit, pc, authors, ci, store, txn, posts, pi,
                   total, summary, run, firstRun>>

join_all_at_once(ts) == TRUE

\* join_set.join_all().await returns when every task of the set is done
join_all(ts) == \A t \in 1..Len(ts) : ts[t].state \in Terminal

\* join_set.join_all().await; and the summary
JoinAll ==
    /\ pc = "join"
    /\ join_all(tasks)
    /\ total' = finish_and_clear(total)
    /\ summary' = Append(summary, [run |-> run, creator |-> ci] @@ report(total'))
    /\ NextCreator
    /\ UNCHANGED <<rdVars, crVars, fs, limit, authors, store, txn, posts, pi, tasks,
                   permits, run, firstRun>>

Next ==
    \/ SyncCreators
    \/ MainGetPosts
    \/ SyncPost
    \/ CommitPost
    \/ \E t \in 1..Len(tasks) : TaskAcquire(t)
    \/ \E t \in 1..Len(tasks) : TaskFinish(t)
    \/ JoinAll

Spec == Init /\ [][Next]_vars

(***************************************************************************)
(* SpecRerun: the program is run a second time over the same input tree,   *)
(* with the same configuration, against the store the first run left.      *)
(***************************************************************************)
Rerun ==
    /\ pc \in Ended
    /\ run = 1
    /\ run' = 2
    /\ firstRun' = [exit |-> pc, store |-> store]
    /\ pc' = "sync_creators"
    /\ authors' = <<>>
    /\ ci' = 0
    /\ txn' = {}
    /\ posts' = <<>>
    /\ pi' = 0
    /\ tasks' = <<>>
    /\ permits' = 0
    /\ total' = ProgressBar(0)
    /\ summary' = <<>>
    /\ UNCHANGED <<rdVars, crVars, fs, limit, store>>

NextRerun == Next \/ Rerun

SpecRerun == Init /\ [][NextRerun]_vars

(***************************************************************************)
(* Grouping: what the claims speak of.                                     *)
(***************************************************************************)
Visible(es) == {i \in 1..Len(es) : ~StartsWithDot(es[i].name)}

\* the name is <digits>yen, one digit or more
DigitsYen(name) ==
    /\ EndsWith(name, YEN)
    /\ Len(name) > Len(YEN)
    /\ \A i \in 1..(Len(name) - Len(YEN)) : IsDigit(name[i])

\* the name starts with the 11 characters of a date, YYYY-MM-DD-
HasDatePrefix(name) ==
    /\ Len(name) >= DATE_PREFIX_LEN
    /\ MatchesDateFormat(SubSeq(name, 1, DATE_PREFIX_LEN))

\* a directory whose files can all be listed: S_one
PlainDir(e) == e.kind = "dir" /\ e.fail = "none" /\ e.entries = S_one

PlainFile(e) == e.kind = "file" /\ ~StartsWithDot(e.name)

RECURSIVE Occurrences(_, _)
\* how often the path is listed in the sequence of files
Occurrences(path, files) ==
    IF files = <<>> THEN 0
    ELSE (IF Head(files).path = path THEN 1 ELSE 0) + Occurrences(path, Tail(files))

RECURSIVE AllListed(_)
\* the file lists of the groups, one after the other
AllListed(groups) ==
    IF groups = <<>> THEN <<>> ELSE Head(groups).files \o AllListed(Tail(groups))

RECURSIVE VisibleBelow(_, _, _)
\* the regular files the listings deliver at or below the directory, through
\* entries that are not hidden, down to MAX_DEPTH levels
VisibleBelow(path, d, level) ==
    IF level > MAX_DEPTH THEN {}
    ELSE LET es == Listing(d) IN
         {Append(path, es[i].name) : i \in {j \in Visible(es) : es[j].kind = "file"}}
         \cup UNION {VisibleBelow(Append(path, es[i].name), es[i], level + 1) :
                        i \in {j \in Visible(es) : es[j].kind = "dir"}}

\* every regular file reachable from the creator directory within the
\* limit: the files the listings deliver, hidden entries apart, directly in
\* the creator directory or below any of its child directories
ReachableFiles(d) ==
    LET es == Listing(d) IN
    {<<d.name, es[i].name>> : i \in {j \in Visible(es) : es[j].kind = "file"}}
    \cup UNION {VisibleBelow(<<d.name, es[i].name>>, es[i], 1) :
                   i \in {j \in Visible(es) : es[j].kind = "dir"}}

\* the child directory is one a group is made for
IsGroupDir(e) ==
    /\ e.kind = "dir"
    /\ \/ is_plan(e.name)
       \/ /\ ~split_at(e.name, DATE_PREFIX_LEN).panic
          /\ parse_from_str(split_at(e.name, DATE_PREFIX_LEN).left).ok

\* the files of the creator directory that belong in a group
Collectable(d) ==
    LET es == Listing(d) IN
    {<<d.name, es[i].name>> : i \in {j \in Visible(es) : es[j].kind = "file"}}
    \cup UNION {VisibleBelow(<<d.name, es[i].name>>, es[i], 1) :
                   i \in {j \in Visible(es) : IsGroupDir(es[j])}}

ReadOk == rdPhase = "read" /\ rdGroups.status = "ok"

\* C8 as claimed: when read_fanbox_dl_archive returns its groups, every
\* regular file reachable from the creator directory within the depth limit
\* is listed exactly once in the groups
C8_EveryReachableFileOnce ==
    ReadOk =>
        \A f \in ReachableFiles(rdInput) :
            Occurrences(f, AllListed(rdGroups.posts)) = 1

\* C8 as amended: when read_fanbox_dl_archive returns its groups, the files
\* listed in them are, once each, the files that are not hidden and that the
\* listings deliver directly in the creator directory or, through
\* directories that are not hidden and within MAX_DEPTH levels, below a child
\* directory a group is made for; no other file is listed
C8_CollectableFilesOnce ==
    ReadOk =>
        /\ \A f \in Collectable(rdInput) :
               Occurrences(f, AllListed(rdGroups.posts)) = 1
        /\ \A i \in 1..Len(AllListed(rdGroups.posts)) :
               AllListed(rdGroups.posts)[i].path \in Collectable(rdInput)

\* C8 witness: groups were returned that list a file of a nested directory,
\* while a file of the creator directory is in no group
C8_Witness ==
    /\ ReadOk
    /\ \E i \in 1..Len(AllListed(rdGroups.posts)) :
           Len(AllListed(rdGroups.posts)[i].path) >= 4
    /\ ReachableFiles(rdInput) # Collectable(rdInput)

\* the creator directory holds nothing that stops the grouping apart from
\* the directories, all plain, whose names satisfy Case: its other entries
\* are plain files
OnlyPlainFilesAnd(Case(_)) ==
    /\ rdInput.fail = "none"
    /\ \E i \in 1..Len(rdInput.entries) :
           PlainDir(rdInput.entries[i]) /\ Case(rdInput.entries[i].name)
    /\ \A i \in 1..Len(rdInput.entries) :
           \/ PlainFile(rdInput.entries[i])
           \/ PlainDir(rdInput.entries[i]) /\ Case(rdInput.entries[i].name)

\* the name ends in yen after a prefix that holds a character other than a
\* digit
NonDigitYen(name) ==
    /\ EndsWith(name, YEN)
    /\ \E i \in 1..(Len(name) - Len(YEN)) : ~IsDigit(name[i])

DigitsYenU32(name) ==
    /\ DigitsYen(name)
    /\ FitsU32(StripZeros(SubSeq(name, 1, Len(name) - Len(YEN))))

\* C9 as claimed: a directory <digits>yen yields a plan-tier group with that
\* number and its files; a directory whose name ends in yen after a prefix
\* that is not all digits yields no plan-tier group and no error
C9_PlanTierOnlyForDigits ==
    rdPhase = "read" =>
        /\ OnlyPlainFilesAnd(DigitsYenU32) =>
               /\ rdGroups.status = "ok"
               /\ \A i \in 1..Len(rdInput.entries) :
                      LET e == rdInput.entries[i] IN
                      PlainDir(e) =>
                          \E g \in 1..Len(rdGroups.posts) :
                              /\ rdGroups.posts[g].type = "GroupByPlan"
                              /\ rdGroups.posts[g].plan =
                                     StripZeros(SubSeq(e.name, 1, Len(e.name) - Len(YEN)))
                              /\ rdGroups.posts[g].files =
                                     <<from_path(<<rdInput.name, e.name, n_x>>)>>
        /\ OnlyPlainFilesAnd(NonDigitYen) =>
               /\ rdGroups.status = "ok"
               /\ \A g \in 1..Len(rdGroups.posts) :
                      rdGroups.posts[g].type # "GroupByPlan"

NeitherPattern(name) ==
    /\ ~StartsWithDot(name)
    /\ ~EndsWith(name, YEN)
    /\ ~HasDatePrefix(name)

\* C10 as claimed: a directory that matches neither pattern is ignored: the
\* read neither fails nor crashes, no group is made for it, and the other
\* entries (here the plain files) are still grouped
C10_UnmatchedDirIgnored ==
    rdPhase = "read" /\ OnlyPlainFilesAnd(NeitherPattern) =>
        /\ rdGroups.status = "ok"
        /\ Len(rdGroups.posts) = 1
        /\ rdGroups.posts[1].type = "Ungroup"
        /\ {rdGroups.posts[1].files[i].path : i \in 1..Len(rdGroups.posts[1].files)}
               = {<<rdInput.name, rdInput.entries[i].name>> :
                      i \in {j \in 1..Len(rdInput.entries) :
                                 PlainFile(rdInput.entries[j])}}

(***************************************************************************)
(* The pipeline: what the claims speak of.                                 *)
(***************************************************************************)
TasksIn(states) == {t \in 1..Len(tasks) : tasks[t].state \in states}

\* the tasks that sync_posts spawned for the creator in the run
TasksOf(r, c) == {t \in 1..Len(tasks) : tasks[t].run = r /\ tasks[t].creator = c}

\* C1: at any moment of a run, the transform tasks that are Running are at
\* most config.limit
C1_RunningWithinLimit == Cardinality(TasksIn({"Running"})) <= limit

\* C1 witness: as many tasks run as the limit allows, tasks of two posts
\* among them, while another task waits for a permit
C1_Witness ==
    /\ limit >= 2
    /\ Cardinality(TasksIn({"Running"})) = limit
    /\ \E a, b \in TasksIn({"Running"}) : tasks[a].post # tasks[b].post
    /\ TasksIn({"Pending"}) # {}

\* C2 as claimed: the summary sync_posts logs says total = the transforms
\* attempted, success = those that succeeded, failed = those that returned
\* an error
C2_SummaryCountsTransforms ==
    \A i \in 1..Len(summary) :
        LET mine == TasksOf(summary[i].run, summary[i].creator) IN
        /\ summary[i].total = Cardinality(mine)
        /\ summary[i].success = Cardinality(mine \cap TasksIn({"Succeeded"}))
        /\ summary[i].failed = Cardinality(mine \cap TasksIn({"Failed"}))

\* C3: the step in which a transform fails changes no other task and does
\* not move main (sync_posts does not return because of it); and once
\* sync_posts has returned Ok for a creator, each task it spawned has ended
\* Succeeded or Failed on its own outcome
C3_FailureIsolated ==
    /\ [][\A t \in 1..Len(tasks) :
            tasks[t].state = "Running" /\ tasks'[t].state = "Failed" =>
                /\ pc' = pc
                /\ Len(tasks') = Len(tasks)
                /\ \A u \in 1..Len(tasks) : u # t => tasks'[u] = tasks[u]]_vars
    /\ [](\A i \in 1..Len(summary) :
            \A t \in TasksOf(summary[i].run, summary[i].creator) :
                tasks[t].state \in {"Succeeded", "Failed"})

\* C3 witness: sync_posts has returned Ok for a creator one of whose
\* transforms failed, another of the same post succeeded, and one of another
\* post succeeded
C3_Witness ==
    \E i \in 1..Len(summary) :
        \E a, b, c \in TasksOf(summary[i].run, summary[i].creator) :
            /\ tasks[a].state = "Failed"
            /\ tasks[b].state = "Succeeded" /\ tasks[b].post = tasks[a].post
            /\ tasks[c].state = "Succeeded" /\ tasks[c].post # tasks[a].post

\* the files read_fanbox_dl_archive collects into the groups of a creator
CollectedFiles(c) ==
    LET listed == AllListed(read_fanbox_dl_archive(<<fs[c].name>>, fs[c]).posts)
    IN  {listed[i].path : i \in 1..Len(listed)}

\* the source paths in the file map of a post
SourcesOf(post) == {post.files[k] : k \in DOMAIN post.files}

\* C4 as claimed: every file collected into a group is in the file map of
\* exactly one post that get_posts builds, and sync_posts, once it has
\* returned Ok, has spawned exactly one transform task for it
C4_OneTransformPerCollectedFile ==
    /\ InSyncPosts =>
           \A f \in CollectedFiles(ci) :
               Cardinality({k \in 1..Len(posts) : f \in SourcesOf(posts[k])}) = 1
    /\ \A i \in 1..Len(summary) :
           \A f \in CollectedFiles(summary[i].creator) :
               Cardinality({t \in TasksOf(summary[i].run, summary[i].creator) :
                                tasks[t].source = f}) = 1

\* C5 as claimed: when the synchronization of a post of a creator has
\* failed, the store holds none of that creator's posts and none of the
\* creator's transforms has started
C5_FailedCreatorRolledBack ==
    pc = "err_sync_posts" =>
        /\ \A k \in 1..Len(posts) :
               ~\E q \in store.posts : q.source = posts[k].source
        /\ \A t \in TasksOf(run, ci) : ~tasks[t].started

\* C6 as claimed: a grouping error or a metadata sync error at one creator
\* does not end the run before the creators after it are processed
C6_ErrorsAreLocal ==
    pc \in {"err_get_posts", "err_sync_posts"} => ci = Len(authors)

\* C7: the store never holds two authors with one alias nor two posts with
\* one source, and a second run, after a first run that came to its end,
\* leaves the authors and the posts of the store as the first run left them
C7_Idempotent ==
    /\ \A a, b \in store.authors : a.alias = b.alias => a = b
    /\ \A p, q \in store.posts : p.source = q.source => p = q
    /\ run = 2 /\ firstRun.exit = "done" => store = firstRun.store

\* C7 witness: the second run has come to its end after a first run that
\* did, over a store with two authors and two posts or more
C7_Witness ==
    /\ run = 2
    /\ pc = "done"
    /\ firstRun.exit = "done"
    /\ Cardinality(store.authors) = Len(fs)
    /\ Cardinality(store.posts) >= 2

(***************************************************************************)
(* Dated posts.                                                            *)
(***************************************************************************)
\* the name is a date prefix YYYY-MM-DD- followed by a title that does not
\* end in yen
DatedName(name) ==
    /\ HasDatePrefix(name)
    /\ Len(name) > DATE_PREFIX_LEN
    /\ ~EndsWith(name, YEN)

DateOf(name) == SubSeq(name, 1, DATE_PREFIX_LEN - 1)

TitleOf(name) == SubSeq(name, DATE_PREFIX_LEN + 1, Len(name))

\* C11 as claimed: a directory YYYY-MM-DD-<title> yields a dated-post group
\* with the date (midnight UTC) and the title, and get_posts makes it a post
\* with that title, published and updated at that date
C11_DatedPostGroup ==
    /\ rdPhase = "read" /\ OnlyPlainFilesAnd(DatedName) =>
           /\ rdGroups.status = "ok"
           /\ \A i \in 1..Len(rdInput.entries) :
                  LET e == rdInput.entries[i] IN
                  PlainDir(e) =>
                      \E g \in 1..Len(rdGroups.posts) :
                          /\ rdGroups.posts[g].type = "GroupByPost"
                          /\ rdGroups.posts[g].date = DateOf(e.name)
                          /\ rdGroups.posts[g].name = TitleOf(e.name)
    /\ rdPhase = "posts" /\ OnlyPlainFilesAnd(DatedName) =>
           /\ rdPosts.status = "ok"
           /\ \A i \in 1..Len(rdInput.entries) :
                  LET e == rdInput.entries[i] IN
                  PlainDir(e) =>
                      \E k \in 1..Len(rdPosts.posts) :
                          /\ rdPosts.posts[k].title = TitleOf(e.name)
                          /\ rdPosts.posts[k].published = DateOf(e.name)
                          /\ rdPosts.posts[k].updated = DateOf(e.name)

(***************************************************************************)
(* The creator filter.                                                     *)
(***************************************************************************)
OnList(list, c) == \E i \in 1..Len(list) : list[i] = c

\* the entries of the input directory that are creators: not hidden, a
\* directory
Discovered(config) ==
    {i \in 1..Len(config.input.entries) :
         LET e == config.input.entries[i] IN
         /\ e.fail # "entry"
         /\ e.kind = "dir"
         /\ ~StartsWithDot(e.name)}

Admitted(config, c) ==
    /\ config.whitelist = <<>> \/ OnList(config.whitelist, c)
    /\ ~OnList(config.blacklist, c)

Listed == crPhase = "listed" /\ crResult.ok

\* C12: get_creators returns exactly the non-hidden subdirectories of the
\* input that are (on the whitelist or the whitelist is empty) and not on the
\* blacklist, each once and in the order of the listing, and the counts it
\* logs satisfy included + excluded = total discovered
C12_FilterCreators ==
    Listed =>
        LET es == crConfig.input.entries
            names == {crResult.creators[k].name : k \in 1..Len(crResult.creators)}
        IN  /\ names = {es[i].name : i \in {j \in Discovered(crConfig) :
                                               Admitted(crConfig, es[j].name)}}
            /\ Len(crResult.creators) = Cardinality(names)
            /\ \A i \in Discovered(crConfig) :
                   /\ OnList(crConfig.whitelist, es[i].name)
                          /\ OnList(crConfig.blacklist, es[i].name)
                      => es[i].name \notin names
                   /\ crConfig.whitelist # <<>>
                          /\ ~OnList(crConfig.whitelist, es[i].name)
                          /\ ~OnList(crConfig.blacklist, es[i].name)
                      => es[i].name \notin names
            /\ crResult.total = Cardinality(Discovered(crConfig))
            /\ crResult.included = Len(crResult.creators)
            /\ crResult.included + crResult.excluded = crResult.total

\* a creator on both lists and a creator on neither are excluded next to one
\* that is included
C12_Witness ==
    /\ Listed
    /\ Len(crResult.creators) = 1
    /\ \E i, j \in Discovered(crConfig) :
           LET es == crConfig.input.entries IN
           /\ OnList(crConfig.whitelist, es[i].name)
           /\ OnList(crConfig.blacklist, es[i].name)
           /\ ~OnList(crConfig.whitelist, es[j].name)
           /\ ~OnList(crConfig.blacklist, es[j].name)

(***************************************************************************)
(* Empty groups.                                                           *)
(***************************************************************************)
PostsOk == rdPhase = "posts" /\ rdPosts.status = "ok"

NonEmptyGroups ==
    {g \in 1..Len(rdGroups.posts) : rdGroups.posts[g].files # <<>>}

\* C13: every post get_posts returns has a non-empty content list: a group
\* (ungrouped, plan tier or dated) whose file list is empty is dropped, so
\* the posts are as many as the groups that hold a file
C13_EmptyGroupsDropped ==
    PostsOk =>
        /\ \A k \in 1..Len(rdPosts.posts) :
               /\ rdPosts.posts[k].content # <<>>
               /\ rdPosts.posts[k].files # <<>>
        /\ Len(rdPosts.posts) = Cardinality(NonEmptyGroups)

\* an empty plan directory next to a group that holds a file: one of the
\* two groups became a post
C13_Witness ==
    /\ PostsOk
    /\ \E g \in 1..Len(rdGroups.posts) :
           /\ rdGroups.posts[g].type = "GroupByPlan"
           /\ rdGroups.posts[g].files = <<>>
    /\ Len(rdPosts.posts) = 1
    /\ Len(rdGroups.posts) = 2

(***************************************************************************)
(* Commit and spawn.                                                       *)
(***************************************************************************)
\* the tasks of the post whose round of sync_posts' for loop is under way
TasksOfCurrentPost ==
    {t \in 1..Len(tasks) :
         tasks[t].run = run /\ tasks[t].creator = ci /\ tasks[t].post = pi}

\* C14 as claimed: while the transaction of a post is not yet committed no
\* transform task of that post has been spawned, let alone is Running
C14_CommitBeforeSpawn ==
    pc = "commit" => TasksOfCurrentPost = {}

(***************************************************************************)
(* The life of a transform task.                                           *)
(***************************************************************************)
\* C15 as claimed: a task is Pending, Running, Succeeded or Failed and
\* nothing else, it is Succeeded or Failed only after it ran with a permit,
\* and the permits held are as many as the Running tasks
C15_TaskStateMachine ==
    /\ \A t \in 1..Len(tasks) :
           /\ tasks[t].state \in {"Pending", "Running", "Succeeded", "Failed"}
           /\ tasks[t].state \in {"Succeeded", "Failed"} => tasks[t].started
    /\ InSyncPosts =>
           limit - permits = Cardinality(TasksIn({"Running"}))

(***************************************************************************)
(* The end of sync_posts.                                                  *)
(***************************************************************************)
\* C16 as claimed: for every limit the option accepts, sync_posts is never
\* stuck: while it is under way, its loop, one of its tasks or its join_all
\* can take a step, so that every task ends and sync_posts returns
C16_SyncPostsReturns == InSyncPosts => ENABLED Next

(***************************************************************************)
(* The depth of the descent.                                               *)
(***************************************************************************)
RECURSIVE AllBelow(_, _)
\* the regular files at or below the directory, through entries that are
\* not hidden, however deep
AllBelow(path, d) ==
    LET es == d.entries IN
    {Append(path, es[i].name) : i \in {j \in Visible(es) : es[j].kind = "file"}}
    \cup UNION {AllBelow(Append(path, es[i].name), es[i]) :
                   i \in {j \in Visible(es) : es[j].kind = "dir"}}

RECURSIVE Sound(_)
\* every listing at or below the directory can be read to its end and
\* file_type answers for every entry
Sound(d) ==
    /\ d.fail = "none"
    /\ \A i \in 1..Len(d.entries) :
           /\ d.entries[i].kind # "err"
           /\ d.entries[i].kind = "dir" => Sound(d.entries[i])

\* the creator directory holds files and sound plan directories alone
SoundPlans ==
    /\ rdInput.fail = "none"
    /\ \A i \in 1..Len(rdInput.entries) :
           LET e == rdInput.entries[i] IN
           \/ PlainFile(e)
           \/ e.kind = "dir" /\ DigitsYenU32(e.name) /\ Sound(e)

\* the paths listed in the groups below the child directory of the name
ListedBelow(name) ==
    {AllListed(rdGroups.posts)[k].path : k \in
         {j \in 1..Len(AllListed(rdGroups.posts)) :
              /\ Len(AllListed(rdGroups.posts)[j].path) >= 3
              /\ AllListed(rdGroups.posts)[j].path[2] = name}}

\* C17: the files listed for a group are the files at or below its
\* directory that are at most MAX_DEPTH = 5 levels down from it (a file
\* directly in the group's directory is at level 1), so that every nested
\* directory within the limit is collected next to a deeper one; a subtree
\* deeper than that adds no file and is no error
C17_DepthLimit ==
    /\ ReadOk =>
           \A i \in Visible(rdInput.entries) :
               LET e == rdInput.entries[i] IN
               IsGroupDir(e) /\ Sound(e) =>
                   ListedBelow(e.name) =
                       {f \in AllBelow(<<rdInput.name, e.name>>, e) :
                            Len(f) - 2 <= 5}
    /\ rdPhase = "read" /\ SoundPlans => rdGroups.status = "ok"

\* a group directory with a file five levels down, which is listed, and a
\* file six levels down, which is not
C17_Witness ==
    /\ ReadOk
    /\ SoundPlans
    /\ \E i \in Visible(rdInput.entries) :
           LET e == rdInput.entries[i]
               below == AllBelow(<<rdInput.name, e.name>>, e)
           IN  /\ IsGroupDir(e)
               /\ \E f \in below : Len(f) - 2 = 5 /\ f \in ListedBelow(e.name)
               /\ \E f \in below : Len(f) - 2 > 5 /\ f \notin ListedBelow(e.name)

(***************************************************************************)
(* One creator after the other.                                            *)
(***************************************************************************)
Unfinished == TasksIn({"Pending", "Running"})

\* C18: when sync_posts has returned Ok for a creator, every task it spawned
\* is done; a task that is not done belongs to the creator whose sync_posts
\* is under way, so none is left while the next creator is grouped; and the
\* Running tasks of the whole run are the permits taken from the semaphore
\* of the sync_posts under way, which are config.limit at most
C18_CreatorsDoNotOverlap ==
    /\ \A i \in 1..Len(summary) :
           \A t \in TasksOf(summary[i].run, summary[i].creator) :
               tasks[t].state \in {"Succeeded", "Failed"}
    /\ \A t \in Unfinished :
           InSyncPosts /\ tasks[t].run = run /\ tasks[t].creator = ci
    /\ pc \in {"sync_creators", "get_posts", "done"} => Unfinished = {}
    /\ InSyncPosts =>
           /\ Cardinality(TasksIn({"Running"})) + permits = limit
           /\ permits >= 0

\* the second creator's transform runs after the first creator's
\* sync_posts returned, with the first creator's tasks done
C18_Witness ==
    /\ InSyncPosts
    /\ ci = 2
    /\ \E i \in 1..Len(summary) :
           /\ summary[i].run = run
           /\ summary[i].creator = 1
           /\ TasksOf(run, 1) # {}
    /\ \E t \in TasksOf(run, 2) : tasks[t].state = "Running"

(***************************************************************************)
(* The source of a post.                                                   *)
(***************************************************************************)
\* C19 as claimed: the posts get_posts makes of the groups of one creator
\* have sources that differ from one another
C19_DistinctSources ==
    PostsOk =>
        \A j, k \in 1..Len(rdPosts.posts) :
            j # k => rdPosts.posts[j].source # rdPosts.posts[k].source

(***************************************************************************)
(* The transaction of sync_creators.                                       *)
(***************************************************************************)
\* C20: when sync_creators has failed, the store holds no author written
\* in the call, no creator was grouped, no post synchronized and no task
\* spawned, and the run is over; when it has returned Ok, the store holds
\* an author for every creator
C20_CreatorsAllOrNothing ==
    /\ pc = "err_sync_creators" =>
           /\ run = 1 => store.authors = {}
           /\ store.posts = {}
           /\ authors = <<>>
           /\ ci = 0
           /\ posts = <<>>
           /\ tasks = <<>>
           /\ summary = <<>>
           /\ ~ENABLED Next
    /\ pc \notin {"sync_creators", "err_sync_creators"} =>
           \A i \in 1..Len(fs) :
               \E a \in store.authors : a.alias = FANBOX \o fs[i].name

\* sync_creators has failed over two creators
C20_Witness ==
    /\ pc = "err_sync_creators"
    /\ Len(fs) = 2
    /\ fs[1].name # fs[2].name

====
